---- MODULE Spec2Model ----
(***************************************************************************)
(* A model of libgroove's decode engine, src/playlist.c: the playlist's    *)
(* doubly-linked item list, the sink map, the reference-counted buffers,   *)
(* the per-sink queues and the decode thread.                              *)
(*                                                                         *)
(* Threads.  The decode thread holds decode_head_mutex for one whole       *)
(* iteration of its loop, so an API call that takes the mutex runs only    *)
(* while the worker is between iterations (wpc = "idle"), and is one       *)
(* atomic action.  What a call does outside the mutex is a step of its     *)
(* own (the queue abort and flush of groove_sink_detach, the queue reset   *)
(* and back-reference store of groove_sink_attach).  Consumers take and    *)
(* release buffers under the queue's and the buffer's own locks only, so   *)
(* they interleave with the worker's fan-out, which is modelled one queue  *)
(* put and one groove_buffer_ref at a time.                                *)
(*                                                                         *)
(* Undefined behaviour.  A read through a null pointer stops the process   *)
(* (crashed).  A use of freed memory either stops the process or goes on   *)
(* with the values the memory still holds; use_after_free records it.      *)
(*                                                                         *)
(* Units.  Every packet decodes to one frame of duration 1; a file is      *)
(* FileLen packets long; every buffer has size 1, so audioq_size counts    *)
(* buffers.  Item i plays file i.                                          *)
(***************************************************************************)
EXTENDS Integers, Sequences, FiniteSets, TLC

\* ------------------------------------------------------------- bounds
\* items the playlist may allocate in one run
MaxItems == 2
\* items of the engine specification and of the seek specification
FanoutItems == 1
SeekItems == 1
\* items of the destroy specification
DestroyItems == 1
\* items of the volume specification
VolumeItems == 1
\* volumes and gains are 0..MaxVolume, in units of 1.0
MaxVolume == 2
\* sinks of the engine specification
MaxSinks == 2
\* sinks of the sink-map specification
MapSinks == 3
\* buffers the worker may allocate in one run
MaxBufs == 2
\* buffers the worker may make when it plays files through
PlayBufs == 3
\* the worker signals the end only while every queue is shorter than this
MaxQueueLen == 3
\* results of groove_sink_get_buffer that are recorded
MaxResults == 4
\* packets in a file
FileLen == 2
\* a sink is full once its queue holds this many buffers
\* (buffer_size * channel_count * bytes_per_sample, playlist.c:740)
MinAudioqSize == 2

\* ------------------------------------------------------------- state
VARIABLES
    \* GroovePlaylist / GroovePlaylistItem
    head, tail, item_prev, item_next, n_items, alive,
    \* GroovePlaylistPrivate
    decode_head, sent_end_of_q, sink_map, sink_map_count,
    filter_graph, rebuild_filter_graph_flag, in_format, volume, filter_volume,
    \* GrooveFilePrivate of each item's file, and the demuxer's position
    seek_pos, seek_flush, eof, audio_clock, fpos,
    \* GrooveSink / GrooveSinkPrivate / its GrooveQueue
    audio_format, sink_playlist, sphase, audioq, q_abort, audioq_size, held,
    \* GrooveBuffer / GrooveBufferPrivate
    bufs,
    \* the decode thread's position and locals
    wpc, w_ci, w_si, w_buf, w_pkt,
    \* groove_playlist_clear's loop variable (0: no clear in progress)
    clear_node,
    \* GroovePlaylist.volume and each item's gain
    playlist_volume, gain,
    \* abort_request, and groove_playlist_destroy's position
    abort_request, dpc,
    \* what the last groove_sink_detach returned (0 before any)
    detach_ret,
    \* the mutexes' owners, and what each thread's call has left to do on them
    lk_owner, th_todo,
    \* faults
    crashed, use_after_free,
    \* history
    w_ok, w_fail, end_owed, last_seek, results

listVars == <<head, tail, item_prev, item_next, n_items, alive>>
engVars == <<decode_head, sent_end_of_q>>
mapVars == <<sink_map, sink_map_count>>
graphVars == <<filter_graph, rebuild_filter_graph_flag, in_format, volume, filter_volume>>
fileVars == <<seek_pos, seek_flush, eof, audio_clock, fpos>>
sinkVars == <<audio_format, sink_playlist, sphase, q_abort>>
queueVars == <<audioq, audioq_size, held>>
workVars == <<wpc, w_ci, w_si, w_buf, w_pkt, w_ok, w_fail>>
faultVars == <<crashed, use_after_free>>
histVars == <<end_owed, last_seek, results>>
volVars == <<playlist_volume, gain>>
destroyVars == <<abort_request, dpc>>
lockVars == <<lk_owner, th_todo>>
ctlVars == <<volVars, lockVars, destroyVars, detach_ret>>

vars == <<listVars, engVars, mapVars, graphVars, fileVars, sinkVars, queueVars,
          bufs, workVars, clear_node, faultVars, histVars, ctlVars>>

SinkIds == DOMAIN audioq
ItemIds == 1..MaxItems
NoItem == 0
\* end_of_q_sentinel (playlist.c:88) as a queue entry
Sentinel == 0
\* last_seek before any groove_playlist_seek.  After one it holds that call's
\* item and timestamp and the stage of the request: "pending", then "applied"
\* or "failed" by av_seek_frame's result.  quiet: no other API call was made
\* since; while quiet, frames: the worker has run audio_decode_frame on the
\* item; synced: it has decoded a packet with a pts after the seek was
\* applied; advanced: it has moved decode_head on.
NoSeek == [item |-> NoItem, ts |-> 0, stage |-> "none", quiet |-> FALSE,
           frames |-> FALSE, synced |-> FALSE, advanced |-> FALSE]

\* last_seek after another API call
Unquiet(ls) ==
    [ls EXCEPT !.quiet = FALSE, !.frames = FALSE, !.synced = FALSE, !.advanced = FALSE]

\* ------------------------------------------------------------- formats
Fmt(r, l, f) == [sample_rate |-> r, channel_layout |-> l, sample_fmt |-> f]

\* the formats sinks ask for in the sink-map specification: one format, and one
\* that differs from it in each field
AllFormats == {Fmt(1, 1, 1), Fmt(2, 1, 1), Fmt(1, 2, 1), Fmt(1, 1, 2)}

\* the formats sinks ask for in the engine specification
PlayFormats == {Fmt(1, 1, 1), Fmt(2, 1, 1)}

audio_formats_equal_rate_only(a, b) == a.sample_rate = b.sample_rate

audio_formats_equal(a, b) ==
    /\ a.sample_rate = b.sample_rate
    /\ a.channel_layout = b.channel_layout
    /\ a.sample_fmt = b.sample_fmt

\* ------------------------------------------------------------- sink map
\* The sink map is the list of classes (SinkMap), first class first; a class is
\* its stack of sinks (SinkStack), top first, and the state of its
\* abuffersink_ctx: "null" (av_mallocz), "live" (of the current graph) or
\* "stale" (of a graph that was freed).
RemoveAt(seq, j) == SubSeq(seq, 1, j - 1) \o SubSeq(seq, j + 1, Len(seq))

\* the class add_sink_to_map's scan stops at, 0 when it reaches the end
MatchingClass(map, fmts, s) ==
    LET hits == {i \in 1..Len(map) :
                    audio_formats_equal(fmts[Head(map[i].stack)], fmts[s])}
    IN IF hits = {} THEN 0 ELSE CHOOSE i \in hits : \A j \in hits : i <= j

add_sink_to_map(map, fmts, s) ==
    LET i == MatchingClass(map, fmts, s)
    IN IF i # 0
       THEN [map EXCEPT ![i].stack = <<s>> \o @]
       ELSE <<[stack |-> <<s>>, port |-> "null"]>> \o map

\* an add_sink_to_map that counts every sink
add_sink_count_every(map, fmts, s, count) == count + 1

add_sink_count(map, fmts, s, count) ==
    IF MatchingClass(map, fmts, s) # 0 THEN count ELSE count + 1

\* the first class whose stack holds s, 0 when none does
ClassOf(map, s) ==
    LET hits == {i \in 1..Len(map) : \E j \in 1..Len(map[i].stack) : map[i].stack[j] = s}
    IN IF hits = {} THEN 0 ELSE CHOOSE i \in hits : \A j \in hits : i <= j

FirstIndex(stack, s) ==
    CHOOSE j \in 1..Len(stack) : stack[j] = s /\ \A k \in 1..(j - 1) : stack[k] # s

remove_sink_from_map(map, s) ==
    LET i == ClassOf(map, s)
    IN IF i = 0 THEN map
       ELSE LET rest == RemoveAt(map[i].stack, FirstIndex(map[i].stack, s))
            IN IF rest = <<>> THEN RemoveAt(map, i)
               ELSE [map EXCEPT ![i].stack = rest]

remove_sink_count(map, s, count) ==
    LET i == ClassOf(map, s)
    IN IF i # 0 /\ Len(map[i].stack) = 1 THEN count - 1 ELSE count

\* the sinks every_sink visits, in its order
RECURSIVE MapSinkSeq(_)
MapSinkSeq(map) ==
    IF map = <<>> THEN <<>> ELSE Head(map).stack \o MapSinkSeq(Tail(map))

SeqSet(seq) == {seq[i] : i \in 1..Len(seq)}

InMap(s) == s \in SeqSet(MapSinkSeq(sink_map))

\* ------------------------------------------------------------- buffers
\* bufs[b]: the item and position it was decoded from, its ref_count, and how
\* often it was freed.
groove_buffer_ref(B, b) == [B EXCEPT ![b].ref_count = @ + 1]

groove_buffer_unref(B, b) ==
    LET rc == B[b].ref_count - 1
    IN [B EXCEPT ![b].ref_count = rc,
                 ![b].freed = IF rc = 0 /\ @ < 2 THEN @ + 1 ELSE @]

IsFreed(B, b) == B[b].freed > 0

\* ------------------------------------------------------------- queue hooks
\* audioq_cleanup over the entries a flush or a purge drops, first first
RECURSIVE audioq_cleanup(_, _)
audioq_cleanup(B, dropped) ==
    IF dropped = <<>> THEN B
    ELSE IF Head(dropped) = Sentinel THEN audioq_cleanup(B, Tail(dropped))
    ELSE audioq_cleanup(groove_buffer_unref(B, Head(dropped)), Tail(dropped))

\* whether that cleanup touches a buffer that is already freed
RECURSIVE CleanupTouchesFreed(_, _)
CleanupTouchesFreed(B, dropped) ==
    IF dropped = <<>> THEN FALSE
    ELSE IF Head(dropped) = Sentinel THEN CleanupTouchesFreed(B, Tail(dropped))
    ELSE \/ IsFreed(B, Head(dropped))
         \/ CleanupTouchesFreed(groove_buffer_unref(B, Head(dropped)), Tail(dropped))

RECURSIVE SelectSeq2(_, _)
SelectSeq2(seq, keep) ==
    IF seq = <<>> THEN <<>>
    ELSE IF Head(seq) \in keep THEN <<Head(seq)>> \o SelectSeq2(Tail(seq), keep)
    ELSE SelectSeq2(Tail(seq), keep)

Buffers(q) == SeqSet(q) \ {Sentinel}
BufCount(q) == Len(SelectSeq2(q, Buffers(q)))

\* ------------------------------------------------------------- attach, detach
\* groove_sink_attach, up to the unlock: the sink's format is what its owner set
\* before the call.
AttachMap(s, f) ==
    /\ ~crashed /\ wpc = "idle"
    /\ sphase[s] = "idle" /\ ~sink_playlist[s]
    /\ audio_format' = [audio_format EXCEPT ![s] = f]
    /\ sink_map' = add_sink_to_map(sink_map, audio_format', s)
    /\ sink_map_count' = add_sink_count(sink_map, audio_format', s, sink_map_count)
    /\ sphase' = [sphase EXCEPT ![s] = "attach_mid"]
    /\ last_seek' = Unquiet(last_seek)
    /\ UNCHANGED <<listVars, ctlVars, engVars, graphVars, fileVars, sink_playlist, q_abort,
                   queueVars, bufs, workVars, clear_node, faultVars,
                   end_owed, results>>

\* groove_sink_attach, after the unlock: groove_queue_reset and the
\* back-reference
AttachFinish(s) ==
    /\ ~crashed
    /\ sphase[s] = "attach_mid"
    /\ q_abort' = [q_abort EXCEPT ![s] = FALSE]
    /\ sink_playlist' = [sink_playlist EXCEPT ![s] = TRUE]
    /\ sphase' = [sphase EXCEPT ![s] = "idle"]
    /\ UNCHANGED <<listVars, ctlVars, engVars, mapVars, graphVars, fileVars, audio_format,
                   queueVars, bufs, workVars, clear_node, faultVars, histVars>>

\* a groove_sink_detach without its first test
NotAttached_never(s) == FALSE

\* groove_sink_detach's first test, "if (!playlist) return -1"
NotAttached(s) == ~sink_playlist[s]

\* groove_sink_detach on a sink without a back-reference: it returns -1
DetachNone(s) ==
    /\ ~crashed
    /\ NotAttached(s)
    /\ detach_ret' = -1
    /\ UNCHANGED <<listVars, volVars, lockVars, destroyVars, engVars, mapVars, graphVars,
                   fileVars, sinkVars, queueVars, bufs, workVars, clear_node, faultVars,
                   histVars>>

\* groove_sink_detach, before the lock: groove_queue_abort and
\* groove_queue_flush, which cleans up every entry
DetachBegin(s) ==
    /\ ~crashed
    /\ sphase[s] = "idle" /\ ~NotAttached(s)
    /\ q_abort' = [q_abort EXCEPT ![s] = TRUE]
    /\ audioq' = [audioq EXCEPT ![s] = <<>>]
    /\ audioq_size' = [audioq_size EXCEPT ![s] = @ - BufCount(audioq[s])]
    /\ sphase' = [sphase EXCEPT ![s] = "detach_mid"]
    /\ last_seek' = Unquiet(last_seek)
    /\ \/ /\ bufs' = audioq_cleanup(bufs, audioq[s])
          /\ use_after_free' = (use_after_free \/ CleanupTouchesFreed(bufs, audioq[s]))
          /\ UNCHANGED crashed
       \/ /\ CleanupTouchesFreed(bufs, audioq[s])
          /\ use_after_free' = TRUE /\ crashed' = TRUE
          /\ UNCHANGED bufs
    /\ UNCHANGED <<listVars, ctlVars, engVars, mapVars, graphVars, fileVars, audio_format,
                   sink_playlist, held, workVars, clear_node,
                   end_owed, results>>

\* groove_sink_detach, from the lock on: remove_sink_from_map and the
\* back-reference
DetachMap(s) ==
    /\ ~crashed /\ wpc = "idle"
    /\ sphase[s] = "detach_mid"
    /\ sink_map' = remove_sink_from_map(sink_map, s)
    /\ sink_map_count' = remove_sink_count(sink_map, s, sink_map_count)
    /\ sink_playlist' = [sink_playlist EXCEPT ![s] = FALSE]
    /\ sphase' = [sphase EXCEPT ![s] = "idle"]
    /\ detach_ret' = IF ClassOf(sink_map, s) # 0 THEN 0 ELSE -1
    /\ UNCHANGED <<listVars, volVars, lockVars, destroyVars, engVars, graphVars, fileVars,
                   audio_format, q_abort,
                   queueVars, bufs, workVars, clear_node, faultVars, histVars>>

\* ------------------------------------------------------------- faults
\* a read through a null pointer: the process stops
NullCrash ==
    /\ crashed' = TRUE
    /\ UNCHANGED <<listVars, ctlVars, engVars, mapVars, graphVars, fileVars, sinkVars, queueVars,
                   bufs, workVars, clear_node, use_after_free, histVars>>

\* a use of freed memory that stops the process
FreedCrash ==
    /\ crashed' = TRUE /\ use_after_free' = TRUE
    /\ UNCHANGED <<listVars, ctlVars, engVars, mapVars, graphVars, fileVars, sinkVars, queueVars,
                   bufs, workVars, clear_node, histVars>>

\* ------------------------------------------------------------- the queue
\* groove_queue_put: refused on an aborted queue, else the entry goes to the tail
\* and the put hook (audioq_put) counts it unless it is the sentinel
QueueAccepts(s) == ~q_abort[s]

audioq_put(size, obj) == IF obj = Sentinel THEN size ELSE size + 1

audioq_get(size, obj) == IF obj = Sentinel THEN size ELSE size - 1

\* audioq_purge: the entries of q whose item is the purge_item
PurgedOf(q, B, item) == {b \in Buffers(q) : B[b].item = item}

RECURSIVE PurgeBufs(_, _, _, _)
\* the buffers after groove_queue_purge on every sink of sinkseq, in order
PurgeBufs(B, Q, sinkseq, item) ==
    IF sinkseq = <<>> THEN B
    ELSE PurgeBufs(audioq_cleanup(B, SelectSeq2(Q[Head(sinkseq)],
                                                 PurgedOf(Q[Head(sinkseq)], B, item))),
                   Q, Tail(sinkseq), item)

RECURSIVE PurgeTouchesFreed(_, _, _, _)
\* audioq_purge reads the item of every entry, audioq_cleanup the dropped ones
PurgeTouchesFreed(B, Q, sinkseq, item) ==
    IF sinkseq = <<>> THEN FALSE
    ELSE \/ \E b \in Buffers(Q[Head(sinkseq)]) : IsFreed(B, b)
         \/ PurgeTouchesFreed(
                audioq_cleanup(B, SelectSeq2(Q[Head(sinkseq)],
                                             PurgedOf(Q[Head(sinkseq)], B, item))),
                Q, Tail(sinkseq), item)

RECURSIVE FlushBufs(_, _, _)
\* the buffers after groove_queue_flush on every sink of sinkseq, in order
FlushBufs(B, Q, sinkseq) ==
    IF sinkseq = <<>> THEN B
    ELSE FlushBufs(audioq_cleanup(B, Q[Head(sinkseq)]), Q, Tail(sinkseq))

RECURSIVE FlushTouchesFreed(_, _, _)
FlushTouchesFreed(B, Q, sinkseq) ==
    IF sinkseq = <<>> THEN FALSE
    ELSE \/ CleanupTouchesFreed(B, Q[Head(sinkseq)])
         \/ FlushTouchesFreed(audioq_cleanup(B, Q[Head(sinkseq)]), Q, Tail(sinkseq))

\* ------------------------------------------------------------- the item list
\* groove_playlist_count: the items reached from head, following next
RECURSIVE CountFrom(_, _)
CountFrom(node, fuel) ==
    IF node = NoItem \/ fuel = 0 THEN 0 ELSE 1 + CountFrom(item_next[node], fuel - 1)

groove_playlist_count == CountFrom(head, MaxItems + 1)

\* what groove_playlist_insert and the worker's advance do to the file of a new
\* decode head: seek to 0, no flush
ArmSeek(i) ==
    /\ seek_pos' = [seek_pos EXCEPT ![i] = 0]
    /\ seek_flush' = [seek_flush EXCEPT ![i] = FALSE]

\* an item pointer that is set and points to freed memory
Dangling(i) == i # NoItem /\ i \notin alive

\* groove_playlist_insert(playlist, file, gain, next): the new item is n_items + 1
InsertGain(nx, g) ==
    LET item == n_items + 1
        touched == IF nx # NoItem THEN Dangling(item_prev[nx])
                   ELSE Dangling(tail)
    IN
    /\ ~crashed /\ wpc = "idle" /\ clear_node = NoItem
    /\ item <= MaxItems
    /\ nx = NoItem \/ nx \in alive
    /\ \/ touched /\ FreedCrash
       \/ /\ n_items' = item
          /\ alive' = alive \cup {item}
          /\ gain' = [gain EXCEPT ![item] = g]
          /\ IF nx # NoItem
             THEN IF item_prev[nx] # NoItem
                  THEN /\ item_prev' = [item_prev EXCEPT ![item] = item_prev[nx], ![nx] = item]
                       /\ item_next' = [item_next EXCEPT ![item] = nx, ![item_prev[nx]] = item]
                       /\ UNCHANGED <<head, tail>>
                  ELSE /\ head' = item
                       /\ item_next' = [item_next EXCEPT ![item] = nx]
                       /\ item_prev' = [item_prev EXCEPT ![item] = NoItem]
                       /\ UNCHANGED tail
             ELSE IF head = NoItem
                  THEN /\ head' = item /\ tail' = item
                       /\ item_next' = [item_next EXCEPT ![item] = NoItem]
                       /\ item_prev' = [item_prev EXCEPT ![item] = NoItem]
                  ELSE /\ item_prev' = [item_prev EXCEPT ![item] = tail]
                       /\ item_next' = [item_next EXCEPT ![item] = NoItem, ![tail] = item]
                       /\ tail' = item
                       /\ UNCHANGED head
          /\ IF nx = NoItem /\ head = NoItem
             THEN /\ decode_head' = item
                  /\ ArmSeek(item)
             ELSE UNCHANGED <<decode_head, seek_pos, seek_flush>>
          /\ use_after_free' = (use_after_free \/ touched)
          /\ last_seek' = Unquiet(last_seek)
          /\ UNCHANGED <<sent_end_of_q, mapVars, graphVars, eof, audio_clock, fpos,
                         sinkVars, queueVars, bufs, workVars, clear_node, crashed,
                         end_owed, results, playlist_volume, lockVars, destroyVars, detach_ret>>

\* the insert of a file with gain 1.0
Insert(nx) == InsertGain(nx, 1)

\* groove_playlist_remove dereferences a null pointer when a sink of the map has
\* no back-reference yet (purge_sink, audioq_purge) or holds the sentinel, which
\* is NULL (audioq_purge reads buffer->item)
PurgeNoPlaylist == \E s \in SeqSet(MapSinkSeq(sink_map)) : ~sink_playlist[s]

PurgeReadsSentinel ==
    \E s \in SeqSet(MapSinkSeq(sink_map)) : Sentinel \in SeqSet(audioq[s])

RemoveNullDeref == PurgeNoPlaylist \/ PurgeReadsSentinel

\* groove_playlist_remove(playlist, item) on an item the caller holds.  after
\* says what the caller does next: "return", or, in groove_playlist_clear's
\* loop, the read of node->next from the freed item, which yields the value
\* the memory still holds ("loop_read") or stops the process ("loop_crash").
RemoveItem(item, after) ==
    LET sinkseq == MapSinkSeq(sink_map)
        touched == \/ PurgeTouchesFreed(bufs, audioq, sinkseq, item)
                   \/ Dangling(item_prev[item])
                   \/ Dangling(item_next[item])
    IN
    /\ ~crashed /\ wpc = "idle"
    /\ item \in alive
    /\ \/ RemoveNullDeref /\ NullCrash
       \/ ~RemoveNullDeref /\ touched /\ FreedCrash
       \/ /\ ~RemoveNullDeref
          /\ decode_head' = IF item = decode_head THEN item_next[item] ELSE decode_head
          /\ end_owed' = (end_owed \/ (item = decode_head /\ item_next[item] = NoItem))
          /\ IF item_prev[item] # NoItem
             THEN /\ item_next' = [item_next EXCEPT ![item_prev[item]] = item_next[item]]
                  /\ UNCHANGED head
             ELSE /\ head' = item_next[item]
                  /\ UNCHANGED item_next
          /\ IF item_next[item] # NoItem
             THEN /\ item_prev' = [item_prev EXCEPT ![item_next[item]] = item_prev[item]]
                  /\ UNCHANGED tail
             ELSE /\ tail' = item_prev[item]
                  /\ UNCHANGED item_prev
          /\ audioq' = [s \in SinkIds |->
                          IF InMap(s)
                          THEN SelectSeq2(audioq[s],
                                          SeqSet(audioq[s]) \ PurgedOf(audioq[s], bufs, item))
                          ELSE audioq[s]]
          /\ audioq_size' = [s \in SinkIds |->
                          IF InMap(s)
                          THEN audioq_size[s] - Cardinality(PurgedOf(audioq[s], bufs, item))
                          ELSE audioq_size[s]]
          /\ bufs' = PurgeBufs(bufs, audioq, sinkseq, item)
          /\ alive' = alive \ {item}
          /\ clear_node' = IF after = "loop_read" THEN item_next[item] ELSE NoItem
          /\ use_after_free' = (use_after_free \/ touched \/ after # "return")
          /\ crashed' = (after = "loop_crash")
          /\ last_seek' = IF last_seek.item = item THEN NoSeek ELSE Unquiet(last_seek)
          /\ UNCHANGED <<n_items, sent_end_of_q, mapVars, graphVars, fileVars, sinkVars,
                         held, workVars, results, ctlVars>>

Remove(item) == clear_node = NoItem /\ RemoveItem(item, "return")

\* groove_playlist_clear: node = playlist->head
ClearBegin ==
    /\ ~crashed /\ clear_node = NoItem /\ head # NoItem
    /\ clear_node' = head
    /\ last_seek' = Unquiet(last_seek)
    /\ UNCHANGED <<listVars, ctlVars, engVars, mapVars, graphVars, fileVars, sinkVars, queueVars,
                   bufs, workVars, faultVars, end_owed, results>>

\* one turn of its loop: groove_playlist_remove(node); node = node->next
ClearStep ==
    /\ clear_node # NoItem
    /\ \/ \E after \in {"loop_read", "loop_crash"} : RemoveItem(clear_node, after)
       \/ ~crashed /\ wpc = "idle" /\ Dangling(clear_node) /\ FreedCrash

\* groove_playlist_seek(playlist, item, seconds), ts the timestamp it computes
Seek(item, ts) ==
    /\ ~crashed /\ wpc = "idle" /\ clear_node = NoItem
    /\ item \in alive
    /\ seek_pos' = [seek_pos EXCEPT ![item] = ts]
    /\ seek_flush' = [seek_flush EXCEPT ![item] = TRUE]
    /\ decode_head' = item
    /\ end_owed' = end_owed
    /\ last_seek' = [NoSeek EXCEPT !.item = item, !.ts = ts, !.stage = "pending",
                                    !.quiet = TRUE]
    /\ UNCHANGED <<listVars, ctlVars, sent_end_of_q, mapVars, graphVars, eof, audio_clock, fpos,
                   sinkVars, queueVars, bufs, workVars, clear_node, faultVars, results>>

\* the volumes groove_playlist_set_volume and the gains groove_playlist_insert
\* and groove_playlist_set_gain are called with
Volumes == 0..MaxVolume

\* groove_playlist_set_volume(playlist, volume)
SetVolume(v) ==
    /\ ~crashed /\ wpc = "idle" /\ clear_node = NoItem
    /\ \/ Dangling(decode_head) /\ FreedCrash
       \/ /\ playlist_volume' = v
          /\ volume' = IF decode_head # NoItem THEN v * gain[decode_head] ELSE v
          /\ use_after_free' = (use_after_free \/ Dangling(decode_head))
          /\ last_seek' = Unquiet(last_seek)
          /\ UNCHANGED <<listVars, gain, lockVars, destroyVars, detach_ret, engVars, mapVars,
                         filter_graph, rebuild_filter_graph_flag, in_format,
                         filter_volume, fileVars, sinkVars, queueVars, bufs, workVars,
                         clear_node, crashed, end_owed, results>>

\* groove_playlist_set_gain(playlist, item, gain)
SetGain(item, g) ==
    /\ ~crashed /\ wpc = "idle" /\ clear_node = NoItem
    /\ item \in alive
    /\ gain' = [gain EXCEPT ![item] = g]
    /\ volume' = IF item = decode_head THEN playlist_volume * g ELSE volume
    /\ last_seek' = Unquiet(last_seek)
    /\ UNCHANGED <<listVars, playlist_volume, lockVars, destroyVars, detach_ret, engVars, mapVars,
                   filter_graph, rebuild_filter_graph_flag, in_format, filter_volume,
                   fileVars, sinkVars, queueVars, bufs, workVars, clear_node, faultVars,
                   end_owed, results>>

\* groove_playlist_position(playlist, &item, &seconds), with -1 for seconds left
\* unwritten
groove_playlist_position ==
    [item |-> decode_head,
     seconds |-> IF decode_head # NoItem THEN audio_clock[decode_head] ELSE -1]

\* ------------------------------------------------------------- the decode thread
\* the decoder parameters of item i's file (sample rate, layout, format and time
\* base as one value), and whether its codec has CODEC_CAP_DELAY
\* the timestamps groove_playlist_seek is called with
SeekTargets == 0..(FileLen - 1)

FileFormat(i) == (i % 2) + 1
CapDelay(i) == i % 2 = 0

\* The state one worker step reads and writes, as a record: the step's
\* operators take it from Cur to the record Commit stores.  null, ub and
\* touched say that the step read through a null pointer, wrote into a graph
\* that was never configured, or used freed memory.
Cur ==
    [graph |-> filter_graph, flag |-> rebuild_filter_graph_flag, fmt |-> in_format,
     vol |-> volume, fvol |-> filter_volume, map |-> sink_map,
     spos |-> seek_pos, sflush |-> seek_flush, eof |-> eof, fpos |-> fpos,
     clock |-> audio_clock, q |-> audioq, size |-> audioq_size, bufs |-> bufs,
     dh |-> decode_head, sent |-> sent_end_of_q,
     pc |-> wpc, ci |-> w_ci, si |-> w_si, buf |-> w_buf, pkt |-> w_pkt,
     ok |-> w_ok, fail |-> w_fail,
     null |-> FALSE, ub |-> FALSE, touched |-> FALSE,
     owed |-> end_owed, lseek |-> last_seek]

Commit(r) ==
    \/ (r.null \/ r.ub) /\ NullCrash
    \/ ~r.null /\ r.touched /\ FreedCrash
    \/ /\ ~r.null
       /\ filter_graph' = r.graph
       /\ rebuild_filter_graph_flag' = r.flag
       /\ in_format' = r.fmt
       /\ volume' = r.vol
       /\ filter_volume' = r.fvol
       /\ sink_map' = r.map
       /\ seek_pos' = r.spos
       /\ seek_flush' = r.sflush
       /\ eof' = r.eof
       /\ fpos' = r.fpos
       /\ audio_clock' = r.clock
       /\ audioq' = r.q
       /\ audioq_size' = r.size
       /\ bufs' = r.bufs
       /\ decode_head' = r.dh
       /\ sent_end_of_q' = r.sent
       /\ wpc' = r.pc /\ w_ci' = r.ci /\ w_si' = r.si /\ w_buf' = r.buf /\ w_pkt' = r.pkt
       /\ w_ok' = r.ok /\ w_fail' = r.fail
       /\ end_owed' = r.owed
       /\ last_seek' = r.lseek
       /\ use_after_free' = (use_after_free \/ r.touched)
       /\ UNCHANGED <<listVars, ctlVars, sink_map_count, sinkVars, held, clear_node,
                      crashed, results>>

SetPorts(map, from, to) ==
    [i \in 1..Len(map) |->
        IF map[i].port \in from THEN [map[i] EXCEPT !.port = to] ELSE map[i]]

\* a sink that is full only above its threshold
sink_is_full_above(s) == audioq_size[s] > MinAudioqSize

\* sink_is_full, every_sink_full
sink_is_full(s) == audioq_size[s] >= MinAudioqSize

every_sink_full == \A s \in SeqSet(MapSinkSeq(sink_map)) : sink_is_full(s)

\* maybe_init_filter_graph's condition
RebuildNeeded(r, f) ==
    \/ r.graph = "none"
    \/ r.flag
    \/ r.fmt # FileFormat(f)
    \/ r.vol # r.fvol

BuildOutcomes == {"ok", "alloc_fail", "config_fail"}

\* init_filter_graph.  "alloc_fail": avfilter_graph_alloc fails after the old
\* graph was freed.  "config_fail": a later step fails (here the last,
\* avfilter_graph_config), after the snapshot, filter_volume and every class's
\* contexts were stored; the new graph is kept.
init_filter_graph(r, f, bo) ==
    CASE bo = "ok" ->
            [r EXCEPT !.graph = "built", !.flag = FALSE, !.fmt = FileFormat(f),
                      !.fvol = r.vol,
                      !.map = SetPorts(r.map, {"null", "live", "stale"}, "live")]
      [] bo = "alloc_fail" ->
            [r EXCEPT !.graph = "none", !.map = SetPorts(r.map, {"live"}, "stale")]
      [] bo = "config_fail" ->
            [r EXCEPT !.graph = "partial", !.fmt = FileFormat(f), !.fvol = r.vol,
                      !.map = SetPorts(r.map, {"null", "live", "stale"}, "live")]

\* an advance whose seek flushes
Advance_flushing(r, f) ==
    LET n == item_next[f]
    IN [r EXCEPT !.dh = n,
                 !.spos = IF n # NoItem THEN [r.spos EXCEPT ![n] = 0] ELSE r.spos,
                 !.sflush = IF n # NoItem THEN [r.sflush EXCEPT ![n] = TRUE] ELSE r.sflush,
                 !.touched = r.touched \/ Dangling(n),
                 !.owed = r.owed \/ n = NoItem,
                 !.lseek = IF r.lseek.quiet
                           THEN [r.lseek EXCEPT !.advanced = TRUE] ELSE r.lseek]

\* decode_thread, when decode_one_frame returned < 0: the next item becomes the
\* decode head and its file is armed with a seek to 0 that does not flush
Advance(r, f) ==
    LET n == item_next[f]
    IN [r EXCEPT !.dh = n,
                 !.spos = IF n # NoItem THEN [r.spos EXCEPT ![n] = 0] ELSE r.spos,
                 !.sflush = IF n # NoItem THEN [r.sflush EXCEPT ![n] = FALSE] ELSE r.sflush,
                 !.touched = r.touched \/ Dangling(n),
                 !.owed = r.owed \/ n = NoItem,
                 !.lseek = IF r.lseek.quiet
                           THEN [r.lseek EXCEPT !.advanced = TRUE] ELSE r.lseek]

\* decode_one_frame's test for a seek request
SeekPending(pos) == pos >= 0

\* decode_one_frame without its seek block
HandleSeek_skipped(r, f, so) == r

\* a seek block that flushes no queue
SeekFlushes_never(so, flush) == FALSE

\* "else if (f->seek_flush)" after av_seek_frame: every_sink_flush is called
SeekFlushes(so, flush) == so /\ flush

\* decode_one_frame's seek block; so: av_seek_frame succeeds
HandleSeek(r, f, so) ==
    IF ~SeekPending(r.spos[f]) THEN r
    ELSE LET sinkseq == MapSinkSeq(r.map)
             doflush == SeekFlushes(so, r.sflush[f])
         IN [r EXCEPT
               !.fpos = IF so THEN [r.fpos EXCEPT ![f] = r.spos[f]] ELSE r.fpos,
               !.q = IF doflush
                     THEN [s \in SinkIds |-> IF s \in SeqSet(sinkseq) THEN <<>> ELSE r.q[s]]
                     ELSE r.q,
               !.size = IF doflush
                        THEN [s \in SinkIds |->
                                 IF s \in SeqSet(sinkseq)
                                 THEN r.size[s] - BufCount(r.q[s]) ELSE r.size[s]]
                        ELSE r.size,
               !.bufs = IF doflush THEN FlushBufs(r.bufs, r.q, sinkseq) ELSE r.bufs,
               !.touched = r.touched \/ (doflush /\ FlushTouchesFreed(r.bufs, r.q, sinkseq)),
               !.spos = [r.spos EXCEPT ![f] = -1],
               !.eof = [r.eof EXCEPT ![f] = FALSE],
               !.lseek = IF r.lseek.item = f /\ r.lseek.stage = "pending"
                         THEN [r.lseek EXCEPT !.stage = IF so THEN "applied" ELSE "failed"]
                         ELSE r.lseek]

\* audio_decode_frame's harvest of class ci: frame_to_groove_buffer on the frame
\* av_buffersink_get_frame returns, then the fan-out starts at the stack's top
StartClass(r, f, ci, pkt) ==
    IF r.map[ci].port = "null" THEN [r EXCEPT !.null = TRUE]
    ELSE [r EXCEPT !.bufs = Append(r.bufs, [item |-> f, pos |-> r.clock[f],
                                             ref_count |-> 0, freed |-> 0]),
                   !.touched = r.touched \/ r.map[ci].port = "stale",
                   !.pc = "put", !.ci = ci, !.si = 1, !.buf = Len(r.bufs) + 1,
                   !.pkt = pkt, !.ok = {}, !.fail = {}]

\* the end of audio_decode_frame and of the iteration.  err: the harvest failed.
\* Without a pts the clock is estimated; a failed drain makes decode_one_frame
\* return -1.
EndFrame(r, f, err) ==
    LET r1 == [r EXCEPT !.pc = "idle", !.ci = 0, !.si = 0, !.buf = 0, !.pkt = "none",
                        !.ok = {}, !.fail = {}]
    IN IF err
       THEN IF r.pkt = "drain" THEN Advance(r1, f) ELSE r1
       ELSE IF r.pkt = "pts" THEN r1
            ELSE [r1 EXCEPT !.clock = [r.clock EXCEPT ![f] = @ + 1]]

\* av_buffersrc_write_frame and what follows it
WriteFrame(r, f, pkt) ==
    IF r.graph = "partial"
    THEN LET r1 == [r EXCEPT !.ub = TRUE]
         IN IF pkt = "drain" THEN Advance(r1, f) ELSE r1
    ELSE StartClass(r, f, 1, pkt)

\* audio_decode_frame's clock update (playlist.c:150), with and without it
ClockFromPts_never(clock, f, pts, pos) == clock

ClockFromPts(clock, f, pts, pos) == IF pts THEN [clock EXCEPT ![f] = pos] ELSE clock

ReadOutcomes == {"other", "error", "frame"}

\* What the codec/demuxer library and the files may do, as the sets the
\* worker's steps draw from.  bo: init_filter_graph's outcomes; so: whether
\* av_seek_frame succeeds; rd: what a packet read is; pts: whether the packet
\* has a pts; drain: whether the decoder still gives a frame at end of file;
\* herr: whether the harvest of a later class fails.
LibAny ==
    [bo |-> BuildOutcomes, so |-> BOOLEAN, rd |-> ReadOutcomes, pts |-> BOOLEAN,
     drain |-> BOOLEAN, herr |-> BOOLEAN]

\* a library that does not fail, and files of audio packets with a pts
LibGood ==
    [bo |-> {"ok"}, so |-> {TRUE}, rd |-> {"frame"}, pts |-> {TRUE},
     drain |-> {FALSE}, herr |-> {FALSE}]

\* an iteration that never clears sent_end_of_q
ResetSentEndOfQ_never(r) == r

\* decode_thread's "p->sent_end_of_q = 0", once it has found a decode head
ResetSentEndOfQ(r) == [r EXCEPT !.sent = FALSE]

\* decode_thread's "p->volume = p->decode_head->gain * playlist->volume"
EffectiveVolume(i) == gain[i] * playlist_volume

\* a library whose graph build may fail, and files of audio packets with a pts
LibBuild ==
    [bo |-> BuildOutcomes, so |-> {TRUE}, rd |-> {"frame"}, pts |-> {TRUE},
     drain |-> {FALSE}, herr |-> {FALSE}]

\* decode_one_frame(playlist, file) and, when it fails, the advance.
\* bo: the graph build's outcome; so: av_seek_frame succeeds; rd: what the
\* packet read is ("other": not the audio stream; "error": the decoder fails or
\* gives no frame; "frame"); pts: the packet has a pts; drain: at end of file
\* the decoder still gives a frame.
decode_one_frame(f, bo, so, rd, pts, drain) ==
    LET r0 == [ResetSentEndOfQ(Cur) EXCEPT !.vol = EffectiveVolume(f)]
        need == RebuildNeeded(r0, f)
        r1 == IF need THEN init_filter_graph(r0, f, bo) ELSE r0
    IN IF need /\ bo # "ok" THEN Advance(r1, f)
       ELSE LET r2 == HandleSeek(r1, f, so)
                seen == [r2.lseek EXCEPT !.frames = r2.lseek.quiet \/ @]
            IN IF r2.eof[f]
               THEN IF CapDelay(f) /\ drain
                    THEN WriteFrame([r2 EXCEPT !.lseek = seen], f, "drain")
                    ELSE Advance(r2, f)
               ELSE IF r2.fpos[f] >= FileLen
               THEN [r2 EXCEPT !.eof = [r2.eof EXCEPT ![f] = TRUE]]
               ELSE LET r3 == [r2 EXCEPT !.fpos = [r2.fpos EXCEPT ![f] = @ + 1]]
                        r4 == [r3 EXCEPT
                                 !.clock = ClockFromPts(r3.clock, f, pts, r2.fpos[f]),
                                 !.lseek = [seen EXCEPT !.synced =
                                     @ \/ (seen.quiet /\ seen.stage = "applied" /\ pts)]]
                    IN CASE rd = "other" -> r3
                         [] rd = "error" -> r4
                         [] rd = "frame" -> WriteFrame(r4, f, IF pts THEN "pts" ELSE "nopts")

\* a signal that puts the sentinel twice
every_sink_signal_end_twice(Q) ==
    [s \in SinkIds |->
        IF InMap(s) /\ QueueAccepts(s) THEN Q[s] \o <<Sentinel, Sentinel>> ELSE Q[s]]

\* every_sink_signal_end: the sentinel goes into every queue of the map that
\* accepts it
every_sink_signal_end(Q) ==
    [s \in SinkIds |-> IF InMap(s) /\ QueueAccepts(s) THEN Append(Q[s], Sentinel) ELSE Q[s]]

\* one iteration with nothing to decode
WorkerSignalEnd ==
    /\ ~crashed /\ wpc = "idle" /\ ~abort_request
    /\ decode_head = NoItem
    /\ sent_end_of_q \/ \A s \in SinkIds : Len(audioq[s]) < MaxQueueLen
    /\ Commit([Cur EXCEPT !.q = IF sent_end_of_q THEN audioq ELSE every_sink_signal_end(audioq),
                          !.sent = TRUE,
                          !.owed = IF sent_end_of_q THEN end_owed ELSE FALSE])

\* one iteration with every sink full
WorkerFull ==
    /\ ~crashed /\ wpc = "idle" /\ ~abort_request
    /\ decode_head # NoItem
    /\ every_sink_full
    /\ Commit(ResetSentEndOfQ(Cur))

\* one iteration that calls decode_one_frame, up to the first queue put, while
\* the iteration's buffers fit in nbufs
WorkerDecodeUpTo(lib, nbufs) ==
    /\ ~crashed /\ wpc = "idle" /\ ~abort_request
    /\ decode_head # NoItem
    /\ ~every_sink_full
    /\ Len(bufs) + Len(sink_map) <= nbufs
    /\ \E bo \in lib.bo, so \in lib.so, rd \in lib.rd, pts \in lib.pts, drain \in lib.drain :
          LET r == decode_one_frame(decode_head, bo, so, rd, pts, drain)
          IN Commit([r EXCEPT !.touched = r.touched \/ Dangling(decode_head)])

WorkerDecode(lib) == WorkerDecodeUpTo(lib, MaxBufs)

\* decode_thread's loop test, "while (!p->abort_request)": the thread returns
WorkerExit ==
    /\ ~crashed /\ wpc = "idle" /\ abort_request
    /\ wpc' = "exited"
    /\ UNCHANGED <<listVars, ctlVars, engVars, mapVars, graphVars, fileVars, sinkVars,
                   queueVars, bufs, w_ci, w_si, w_buf, w_pkt, w_ok, w_fail, clear_node,
                   faultVars, histVars>>

\* the sink the fan-out is at
FanoutSink == sink_map[w_ci].stack[w_si]

\* the fan-out's sinks, with a loop that stops after the stack's top
NextSink_top_only(r) == [r EXCEPT !.pc = "final_ref"]

\* the fan-out's step to the next sink of the stack
NextSink(r) ==
    IF r.si < Len(r.map[r.ci].stack)
    THEN [r EXCEPT !.si = r.si + 1, !.pc = "put"]
    ELSE [r EXCEPT !.pc = "final_ref"]

\* groove_queue_put(s->audioq, buffer) of the fan-out
WorkerPut ==
    /\ ~crashed /\ wpc = "put"
    /\ LET s == FanoutSink
       IN IF QueueAccepts(s)
          THEN Commit([Cur EXCEPT !.q = [audioq EXCEPT ![s] = Append(@, w_buf)],
                                  !.size = [audioq_size EXCEPT ![s] = audioq_put(@, w_buf)],
                                  !.ok = w_ok \cup {s},
                                  !.touched = IsFreed(bufs, w_buf),
                                  !.pc = "ref"])
          ELSE Commit(NextSink([Cur EXCEPT !.fail = w_fail \cup {s}]))

\* groove_buffer_ref(buffer) after a put that succeeded
WorkerRef ==
    /\ ~crashed /\ wpc = "ref"
    /\ Commit(NextSink([Cur EXCEPT !.bufs = groove_buffer_ref(bufs, w_buf),
                                   !.touched = IsFreed(bufs, w_buf)]))

\* the ref of "do a ref/unref to trigger cleanup if there were no refs"
WorkerFinalRef ==
    /\ ~crashed /\ wpc = "final_ref"
    /\ Commit([Cur EXCEPT !.bufs = groove_buffer_ref(bufs, w_buf),
                          !.touched = IsFreed(bufs, w_buf),
                          !.pc = "final_unref"])

\* its unref, then the next class's harvest or the end of the iteration;
\* herr: av_buffersink_get_frame or frame_to_groove_buffer fails for the next
\* class
WorkerFinalUnref(lib) ==
    /\ ~crashed /\ wpc = "final_unref"
    /\ LET r == [Cur EXCEPT !.bufs = groove_buffer_unref(bufs, w_buf),
                            !.touched = IsFreed(bufs, w_buf)]
       IN IF w_ci < Len(sink_map)
          THEN \E herr \in lib.herr :
                  Commit(IF herr THEN EndFrame(r, decode_head, TRUE)
                         ELSE StartClass(r, decode_head, w_ci + 1, w_pkt))
          ELSE Commit(EndFrame(r, decode_head, FALSE))

\* ------------------------------------------------------------- consumers
\* groove_sink_get_buffer(sink, &buffer, 0) when the queue gives an entry: the
\* get hook (audioq_get) reads the buffer's size
ConsumerGet(s, rec) ==
    /\ ~crashed
    /\ ~q_abort[s] /\ audioq[s] # <<>>
    /\ LET b == Head(audioq[s])
           touched == b # Sentinel /\ IsFreed(bufs, b)
       IN \/ touched /\ FreedCrash
          \/ /\ audioq' = [audioq EXCEPT ![s] = Tail(@)]
             /\ audioq_size' = [audioq_size EXCEPT ![s] = audioq_get(@, b)]
             /\ held' = [held EXCEPT ![s] = IF b = Sentinel THEN @ ELSE @ \cup {b}]
             /\ results' = IF rec THEN Append(results, IF b = Sentinel THEN "END" ELSE "YES")
                           ELSE results
             /\ use_after_free' = (use_after_free \/ touched)
             /\ UNCHANGED <<listVars, ctlVars, engVars, mapVars, graphVars, fileVars, sinkVars,
                            bufs, workVars, clear_node, crashed,
                            end_owed, last_seek>>

\* groove_sink_get_buffer(sink, &buffer, 0) when it gives none
ConsumerGetNone(s) ==
    /\ ~crashed
    /\ q_abort[s] \/ audioq[s] = <<>>
    /\ results' = Append(results, "NO")
    /\ UNCHANGED <<listVars, ctlVars, engVars, mapVars, graphVars, fileVars, sinkVars, queueVars,
                   bufs, workVars, clear_node, faultVars, end_owed, last_seek>>

\* groove_buffer_unref by the consumer that got the buffer
ConsumerUnref(s, b) ==
    /\ ~crashed
    /\ b \in held[s]
    /\ \/ IsFreed(bufs, b) /\ FreedCrash
       \/ /\ bufs' = groove_buffer_unref(bufs, b)
          /\ held' = [held EXCEPT ![s] = @ \ {b}]
          /\ use_after_free' = (use_after_free \/ IsFreed(bufs, b))
          /\ UNCHANGED <<listVars, ctlVars, engVars, mapVars, graphVars, fileVars, sinkVars,
                         audioq, audioq_size, workVars, clear_node, crashed, histVars>>

\* ------------------------------------------------------------- destroy
\* groove_playlist_destroy, called when no other call is in progress: its
\* groove_playlist_clear starts (node = playlist->head)
DestroyBegin ==
    /\ ~crashed /\ dpc = "none" /\ clear_node = NoItem
    /\ \A s \in SinkIds : sphase[s] = "idle"
    /\ dpc' = "clear"
    /\ clear_node' = head
    /\ last_seek' = Unquiet(last_seek)
    /\ UNCHANGED <<listVars, volVars, lockVars, abort_request, detach_ret, engVars, mapVars,
                   graphVars, fileVars, sinkVars, queueVars, bufs, workVars, faultVars,
                   end_owed, results>>

\* "p->abort_request = 1", when the clear has returned
DestroyAbort ==
    /\ ~crashed /\ dpc = "clear" /\ clear_node = NoItem
    /\ abort_request' = TRUE
    /\ dpc' = "join"
    /\ UNCHANGED <<listVars, volVars, lockVars, detach_ret, engVars, mapVars, graphVars, fileVars,
                   sinkVars, queueVars, bufs, workVars, clear_node, faultVars, histVars>>

\* SDL_WaitThread returns once the decode thread has returned
DestroyJoin ==
    /\ ~crashed /\ dpc = "join" /\ wpc = "exited"
    /\ dpc' = "detach"
    /\ UNCHANGED <<listVars, volVars, lockVars, abort_request, detach_ret, engVars, mapVars,
                   graphVars, fileVars, sinkVars, queueVars, bufs, workVars, clear_node,
                   faultVars, histVars>>

\* One turn of every_sink(playlist, groove_sink_detach, 0).  The sink is the one
\* every_sink's stack_item holds; groove_sink_detach frees that stack entry and,
\* when it was the stack's last, the class, and every_sink then reads
\* stack_item->next and map_item->next from the freed memory: the process
\* stops, or the reads give what the memory still holds and the loop goes on
\* with what is now the first sink of the map.  A sink without a
\* back-reference makes groove_sink_detach return -1, which ends the loop.
DestroyDetach ==
    /\ ~crashed /\ dpc = "detach" /\ sink_map # <<>>
    /\ LET s == Head(sink_map[1].stack)
       IN IF ~sink_playlist[s]
          THEN /\ dpc' = "free"
               /\ detach_ret' = -1
               /\ UNCHANGED <<listVars, volVars, lockVars, abort_request, engVars, mapVars,
                              graphVars, fileVars, sinkVars, queueVars, bufs, workVars,
                              clear_node, faultVars, histVars>>
          ELSE /\ q_abort' = [q_abort EXCEPT ![s] = TRUE]
               /\ audioq' = [audioq EXCEPT ![s] = <<>>]
               /\ audioq_size' = [audioq_size EXCEPT ![s] = @ - BufCount(audioq[s])]
               /\ bufs' = audioq_cleanup(bufs, audioq[s])
               /\ sink_map' = remove_sink_from_map(sink_map, s)
               /\ sink_map_count' = remove_sink_count(sink_map, s, sink_map_count)
               /\ sink_playlist' = [sink_playlist EXCEPT ![s] = FALSE]
               /\ detach_ret' = 0
               /\ use_after_free' = TRUE
               /\ crashed' \in BOOLEAN
               /\ UNCHANGED <<listVars, volVars, lockVars, destroyVars, engVars, graphVars,
                              fileVars, audio_format, sphase, held, workVars, clear_node,
                              histVars>>

\* the loop is over: avfilter_graph_free and the frees that follow
DestroyFree ==
    /\ ~crashed
    /\ dpc = "free" \/ (dpc = "detach" /\ sink_map = <<>>)
    /\ filter_graph' = "none"
    /\ dpc' = "done"
    /\ UNCHANGED <<listVars, volVars, lockVars, abort_request, detach_ret, engVars, mapVars,
                   rebuild_filter_graph_flag, in_format, volume, filter_volume, fileVars,
                   sinkVars, queueVars, bufs, workVars, clear_node, faultVars, histVars>>

\* ------------------------------------------------------------- locking
\* The mutexes: decode_head_mutex, each file's seek_mutex, a buffer's mutex and
\* a sink queue's internal lock; and the threads that take them.
DecodeHeadMutex == <<"decode_head_mutex", 0>>
SeekMutex(f) == <<"seek_mutex", f>>
BufferMutex == <<"buffer_mutex", 0>>
QueueLock == <<"queue_lock", 0>>

LockIds == {DecodeHeadMutex, BufferMutex, QueueLock} \cup {SeekMutex(f) : f \in ItemIds}

ApiThreads == {"api1", "api2"}
LockThreads == {"worker", "consumer"} \cup ApiThreads

\* what a call does to the mutexes, in the order of its code
Acq(l) == <<"lock", l>>
Rel(l) == <<"unlock", l>>
Delay == <<"delay", <<"", 0>>>>
SetAbort == <<"abort", <<"", 0>>>>
Join == <<"join", <<"", 0>>>>

\* a queue call whose hook takes no lock (put, get, abort, reset)
QueueOp == <<Acq(QueueLock), Rel(QueueLock)>>

\* a queue call that cleans entries up (flush, purge): audioq_cleanup calls
\* groove_buffer_unref
QueueCleanup == <<Acq(QueueLock), Acq(BufferMutex), Rel(BufferMutex), Rel(QueueLock)>>

\* groove_buffer_ref, groove_buffer_unref
BufferOp == <<Acq(BufferMutex), Rel(BufferMutex)>>

\* a groove_playlist_seek that takes the file's mutex first
SeekCall_reversed(f) ==
    <<Acq(SeekMutex(f)), Acq(DecodeHeadMutex), Rel(DecodeHeadMutex), Rel(SeekMutex(f))>>

\* groove_playlist_seek
SeekCall(f) ==
    <<Acq(DecodeHeadMutex), Acq(SeekMutex(f)), Rel(SeekMutex(f)), Rel(DecodeHeadMutex)>>

\* groove_playlist_insert; empty: into an empty playlist
InsertCall(f, empty) ==
    <<Acq(DecodeHeadMutex)>>
    \o (IF empty THEN <<Acq(SeekMutex(f)), Rel(SeekMutex(f))>> ELSE <<>>)
    \o <<Rel(DecodeHeadMutex)>>

\* groove_playlist_remove; sinks: the sink map is not empty, and purge_sink
\* purges the queue
RemoveCall(sinks) ==
    <<Acq(DecodeHeadMutex)>> \o (IF sinks THEN QueueCleanup ELSE <<>>)
    \o <<Rel(DecodeHeadMutex)>>

\* groove_playlist_set_gain, groove_playlist_position, groove_playlist_set_volume
MutexCall == <<Acq(DecodeHeadMutex), Rel(DecodeHeadMutex)>>

\* groove_sink_attach
AttachCall == <<Acq(DecodeHeadMutex), Rel(DecodeHeadMutex)>> \o QueueOp

\* groove_sink_detach
DetachCall == QueueOp \o QueueCleanup \o <<Acq(DecodeHeadMutex), Rel(DecodeHeadMutex)>>

\* groove_playlist_destroy of a playlist with one item and one sink
DestroyCall == RemoveCall(TRUE) \o <<SetAbort, Join>> \o DetachCall

ApiCalls ==
    {SeekCall(f) : f \in ItemIds} \cup {InsertCall(f, e) : f \in ItemIds, e \in BOOLEAN}
    \cup {RemoveCall(s) : s \in BOOLEAN} \cup {MutexCall, AttachCall, DetachCall}

\* decode_thread's iterations.  Without a decode head: the sentinel may be put.
IterationEnd == <<Acq(DecodeHeadMutex)>> \o QueueOp \o <<Rel(DecodeHeadMutex), Delay>>

\* without a decode head and the sentinel sent, or with every sink full
IterationWait == <<Acq(DecodeHeadMutex), Rel(DecodeHeadMutex), Delay>>

\* with decode_one_frame: the seek block (flush: every_sink_flush is called),
\* a buffer's fan-out to a sink, and (adv) the advance to the next file
IterationDecode(f, flush, adv) ==
    <<Acq(DecodeHeadMutex), Acq(SeekMutex(f))>>
    \o (IF flush THEN QueueCleanup ELSE <<>>)
    \o <<Rel(SeekMutex(f))>>
    \o QueueOp \o BufferOp \o BufferOp \o BufferOp
    \o (IF adv THEN <<Acq(SeekMutex((f % MaxItems) + 1)), Rel(SeekMutex((f % MaxItems) + 1))>>
        ELSE <<>>)
    \o <<Rel(DecodeHeadMutex)>>

WorkerIterations ==
    {IterationEnd, IterationWait}
    \cup {IterationDecode(f, fl, adv) : f \in ItemIds, fl \in BOOLEAN, adv \in BOOLEAN}

\* groove_playlist_destroy has been called
DestroyStarted ==
    abort_request \/ \E t \in ApiThreads : \E k \in 1..Len(th_todo[t]) : th_todo[t][k] = Join

lockRest ==
    <<listVars, volVars, dpc, detach_ret, engVars, mapVars, graphVars, fileVars, sinkVars,
      queueVars, bufs, workVars, clear_node, faultVars, histVars>>

\* thread t enters a call
LockCall(t, prog) ==
    /\ th_todo[t] = <<>>
    /\ th_todo' = [th_todo EXCEPT ![t] = prog]
    /\ UNCHANGED <<lk_owner, abort_request, lockRest>>

\* "while (!p->abort_request)": the worker starts an iteration
StartWorker == ~abort_request /\ \E prog \in WorkerIterations : LockCall("worker", prog)

StartApi(t) == ~DestroyStarted /\ \E prog \in ApiCalls : LockCall(t, prog)

\* groove_sink_get_buffer, or the consumer's groove_buffer_unref
StartConsumer == ~DestroyStarted /\ \E prog \in {QueueOp, BufferOp} : LockCall("consumer", prog)

\* groove_playlist_destroy, which the application calls when no other call is
\* in progress
StartDestroy(t) ==
    /\ ~DestroyStarted
    /\ \A u \in LockThreads \ {"worker"} : th_todo[u] = <<>>
    /\ LockCall(t, DestroyCall)

\* whether thread t's next operation can be done now: SDL_LockMutex waits for
\* the mutex to be free, SDL_WaitThread for the worker to leave its loop
CanStep(t) ==
    /\ th_todo[t] # <<>>
    /\ Head(th_todo[t])[1] = "lock" => lk_owner[Head(th_todo[t])[2]] = "none"
    /\ Head(th_todo[t])[1] = "join" => (th_todo["worker"] = <<>> /\ abort_request)

\* thread t does its next operation
LockStep(t) ==
    /\ CanStep(t)
    /\ LET kind == Head(th_todo[t])[1]
           l == Head(th_todo[t])[2]
       IN /\ lk_owner' = CASE kind = "lock" -> [lk_owner EXCEPT ![l] = t]
                           [] kind = "unlock" -> [lk_owner EXCEPT ![l] = "none"]
                           [] OTHER -> lk_owner
          /\ abort_request' = (abort_request \/ kind = "abort")
    /\ th_todo' = [th_todo EXCEPT ![t] = Tail(@)]
    /\ UNCHANGED lockRest

\* ------------------------------------------------------------- initial states
\* groove_playlist_create (av_mallocz, volumes 1.0) and groove_sink_create for
\* n sinks
InitWith(n) ==
    /\ head = NoItem /\ tail = NoItem
    /\ item_prev = [i \in ItemIds |-> NoItem]
    /\ item_next = [i \in ItemIds |-> NoItem]
    /\ n_items = 0 /\ alive = {}
    /\ decode_head = NoItem /\ sent_end_of_q = FALSE
    /\ sink_map = <<>> /\ sink_map_count = 0
    /\ filter_graph = "none" /\ rebuild_filter_graph_flag = FALSE
    /\ in_format = 0
    /\ volume = 1 /\ filter_volume = 0
    /\ seek_pos = [i \in ItemIds |-> -1]
    /\ seek_flush = [i \in ItemIds |-> FALSE]
    /\ eof = [i \in ItemIds |-> FALSE]
    /\ audio_clock = [i \in ItemIds |-> 0]
    /\ fpos = [i \in ItemIds |-> 0]
    /\ audio_format = [s \in 1..n |-> Fmt(1, 1, 1)]
    /\ sink_playlist = [s \in 1..n |-> FALSE]
    /\ sphase = [s \in 1..n |-> "idle"]
    /\ audioq = [s \in 1..n |-> <<>>]
    /\ q_abort = [s \in 1..n |-> FALSE]
    /\ audioq_size = [s \in 1..n |-> 0]
    /\ held = [s \in 1..n |-> {}]
    /\ bufs = <<>>
    /\ wpc = "idle" /\ w_ci = 0 /\ w_si = 0 /\ w_buf = 0 /\ w_pkt = "none"
    /\ w_ok = {} /\ w_fail = {}
    /\ clear_node = NoItem
    /\ playlist_volume = 1 /\ gain = [i \in ItemIds |-> 1]
    /\ abort_request = FALSE /\ dpc = "none"
    /\ detach_ret = 0
    /\ lk_owner = [l \in LockIds |-> "none"]
    /\ th_todo = [t \in LockThreads |-> <<>>]
    /\ crashed = FALSE /\ use_after_free = FALSE
    /\ end_owed = FALSE
    /\ last_seek = NoSeek
    /\ results = <<>>

\* ------------------------------------------------------------- the sink map alone
\* Sinks attach and detach, each call from its first step to its last before the
\* next call starts; no item is ever inserted.
NoCallInProgress == \A s \in SinkIds : sphase[s] = "idle"

InitMap == InitWith(MapSinks)

NextMap ==
    \/ \E s \in SinkIds, f \in AllFormats : NoCallInProgress /\ AttachMap(s, f)
    \/ \E s \in SinkIds : AttachFinish(s)
    \/ \E s \in SinkIds : NoCallInProgress /\ DetachBegin(s)
    \/ \E s \in SinkIds : DetachMap(s)
    \/ \E s \in SinkIds : DetachNone(s)

SpecMap == InitMap /\ [][NextMap]_vars

\* ------------------------------------------------------------- the engine
Worker(lib) ==
    \/ WorkerSignalEnd
    \/ WorkerFull
    \/ WorkerDecode(lib)
    \/ WorkerPut
    \/ WorkerRef
    \/ WorkerFinalRef
    \/ WorkerFinalUnref(lib)

Consumers ==
    \/ \E s \in SinkIds : ConsumerGet(s, FALSE)
    \/ \E s \in SinkIds, b \in 1..Len(bufs) : ConsumerUnref(s, b)

\* The engine: MaxSinks sinks that attach and detach, their consumers, the
\* worker, and a playlist that FanoutItems files are appended to and removed
\* from.
Init == InitWith(MaxSinks)

Next ==
    \/ \E s \in SinkIds, f \in PlayFormats : AttachMap(s, f)
    \/ \E s \in SinkIds : AttachFinish(s)
    \/ \E s \in SinkIds : DetachBegin(s)
    \/ \E s \in SinkIds : DetachMap(s)
    \/ n_items < FanoutItems /\ Insert(NoItem)
    \/ \E i \in alive : Remove(i)
    \/ Worker(LibAny)
    \/ Consumers

Spec == Init /\ [][Next]_vars

\* Seeking: one sink and its consumer, and a playlist of SeekItems files.
InitSeek == InitWith(1)

NextSeek ==
    \/ \E s \in SinkIds : AttachMap(s, Fmt(1, 1, 1))
    \/ \E s \in SinkIds : AttachFinish(s)
    \/ n_items < SeekItems /\ Insert(NoItem)
    \/ \E i \in alive : Remove(i)
    \/ \E i \in alive, ts \in SeekTargets : Seek(i, ts)
    \/ Worker(LibAny)
    \/ Consumers

SpecSeek == InitSeek /\ [][NextSeek]_vars

\* The item list: one sink, every list call, a library that does not fail.
InitList == InitWith(1)

NextList ==
    \/ \E s \in SinkIds : AttachMap(s, Fmt(1, 1, 1))
    \/ \E s \in SinkIds : AttachFinish(s)
    \/ \E nx \in {NoItem} \cup alive : Insert(nx)
    \/ \E i \in alive : Remove(i)
    \/ ClearBegin
    \/ ClearStep
    \/ \E i \in alive : Seek(i, 0)
    \/ Worker(LibGood)

SpecList == InitList /\ [][NextList]_vars

\* A fresh playlist: one sink is attached, then one file is inserted, and the
\* consumer polls; results records what groove_sink_get_buffer returns, a NO
\* only after an END.
InitFresh == InitWith(1)

NextFresh ==
    \/ \E s \in SinkIds : AttachMap(s, Fmt(1, 1, 1))
    \/ \E s \in SinkIds : AttachFinish(s)
    \/ (\A s \in SinkIds : sink_playlist[s]) /\ n_items = 0 /\ Insert(NoItem)
    \/ Worker(LibAny)
    \/ \E s \in SinkIds : Len(results) < MaxResults /\ ConsumerGet(s, TRUE)
    \/ \E s \in SinkIds :
          /\ results # <<>> /\ Len(results) < MaxResults
          /\ results[Len(results)] = "END"
          /\ ConsumerGetNone(s)
    \/ \E s \in SinkIds, b \in 1..Len(bufs) : ConsumerUnref(s, b)

SpecFresh == InitFresh /\ [][NextFresh]_vars

\* Destroy: MaxSinks sinks that attach and detach, a playlist of DestroyItems
\* files, the worker, and one groove_playlist_destroy, during which no other call
\* is made.
InitDestroy == InitWith(MaxSinks)

NextDestroy ==
    \/ \E s \in SinkIds, f \in PlayFormats : dpc = "none" /\ AttachMap(s, f)
    \/ \E s \in SinkIds : AttachFinish(s)
    \/ \E s \in SinkIds : dpc = "none" /\ DetachBegin(s)
    \/ \E s \in SinkIds : DetachMap(s)
    \/ dpc = "none" /\ n_items < DestroyItems /\ Insert(NoItem)
    \/ Worker(LibGood)
    \/ WorkerExit
    \/ DestroyBegin
    \/ dpc = "clear" /\ ClearStep
    \/ DestroyAbort
    \/ DestroyJoin
    \/ DestroyDetach
    \/ DestroyFree

SpecDestroy == InitDestroy /\ [][NextDestroy]_vars

\* Volume: one sink, a playlist of VolumeItems files that is played and played
\* again, volume and gain changes, and a graph build that may fail.
InitVolume == InitWith(1)

NextVolume ==
    \/ \E s \in SinkIds : AttachMap(s, Fmt(1, 1, 1))
    \/ \E s \in SinkIds : AttachFinish(s)
    \/ \E g \in Volumes : n_items < VolumeItems /\ InsertGain(NoItem, g)
    \/ \E v \in Volumes : SetVolume(v)
    \/ \E i \in alive, g \in Volumes : SetGain(i, g)
    \/ \E i \in alive : Seek(i, 0)
    \/ Worker(LibBuild)

SpecVolume == InitVolume /\ [][NextVolume]_vars

\* Playing through: MaxSinks sinks that attach, their consumers, a library that
\* does not fail, and a playlist that MaxItems files are appended to; the
\* worker may hold PlayBufs buffers, so that it reads on when a queue is full
\* and reaches the end of a file.
NextPlay ==
    \/ \E s \in SinkIds, f \in PlayFormats : AttachMap(s, f)
    \/ \E s \in SinkIds : AttachFinish(s)
    \/ Insert(NoItem)
    \/ WorkerSignalEnd
    \/ WorkerFull
    \/ WorkerDecodeUpTo(LibGood, PlayBufs)
    \/ WorkerPut
    \/ WorkerRef
    \/ WorkerFinalRef
    \/ WorkerFinalUnref(LibGood)
    \/ Consumers

SpecPlay == InitWith(MaxSinks) /\ [][NextPlay]_vars

\* Playing through under a fair scheduler: one sink that is attached, its
\* consumer, which keeps draining, and the worker, whose loop keeps running
\* (decode_thread sleeps NOOP_DELAY and starts over); the application appends
\* files when it likes.
WorkerPlay ==
    \/ WorkerSignalEnd
    \/ WorkerFull
    \/ WorkerDecodeUpTo(LibGood, PlayBufs)
    \/ WorkerPut
    \/ WorkerRef
    \/ WorkerFinalRef
    \/ WorkerFinalUnref(LibGood)

AttachPlay ==
    \/ \E s \in SinkIds : AttachMap(s, Fmt(1, 1, 1))
    \/ \E s \in SinkIds : AttachFinish(s)

NextLive ==
    \/ AttachPlay
    \/ Insert(NoItem)
    \/ WorkerPlay
    \/ Consumers

\* when a step of the worker's loop changes the state: a fan-out under way, a
\* sentinel to send, sent_end_of_q to clear, or a sink below its threshold
WorkerCanStep ==
    /\ ~crashed
    /\ \/ wpc \in {"put", "ref", "final_ref", "final_unref"}
       \/ /\ wpc = "idle" /\ ~abort_request
          /\ \/ /\ decode_head = NoItem /\ ~sent_end_of_q
                /\ \A s \in SinkIds : Len(audioq[s]) < MaxQueueLen
             \/ decode_head # NoItem /\ every_sink_full /\ sent_end_of_q
             \/ /\ decode_head # NoItem /\ ~every_sink_full
                /\ Len(bufs) + Len(sink_map) <= PlayBufs

\* weak fairness of the worker's loop, WF_vars(WorkerPlay), written with
\* WorkerCanStep for ENABLED <<WorkerPlay>>_vars
WorkerFair == []<>(~WorkerCanStep) \/ []<><<WorkerPlay>>_vars

SpecLive ==
    InitWith(1) /\ [][NextLive]_vars
    /\ WF_vars(AttachPlay) /\ WorkerFair /\ WF_vars(Consumers)

\* Advancing: one sink and its consumer, a library that may fail, and a
\* playlist that MaxItems files are appended to.
NextAdvance ==
    \/ \E s \in SinkIds : AttachMap(s, Fmt(1, 1, 1))
    \/ \E s \in SinkIds : AttachFinish(s)
    \/ Insert(NoItem)
    \/ Worker(LibAny)
    \/ Consumers

SpecAdvance == InitWith(1) /\ [][NextAdvance]_vars

\* Locking: the worker, two application threads and a consumer, each doing
\* the mutex operations of its calls; a thread that is scheduled fairly gets a
\* mutex that is free again and again.
NextLocks ==
    \/ StartWorker
    \/ \E t \in ApiThreads : StartApi(t)
    \/ \E t \in ApiThreads : StartDestroy(t)
    \/ StartConsumer
    \/ \E t \in LockThreads : LockStep(t)

SpecLocks ==
    InitWith(1) /\ [][NextLocks]_vars /\ \A t \in LockThreads : SF_vars(LockStep(t))

\* ------------------------------------------------------------- claims
\* a sink counts as attached from add_sink_to_map to remove_sink_from_map
Attached(s) == sphase[s] = "attach_mid" \/ sink_playlist[s]

ClassFormat(c) == audio_format[Head(c.stack)]

\* C1: after any sequence of groove_sink_attach and groove_sink_detach calls the
\* classes of the sink map correspond one-to-one to the distinct formats of the
\* attached sinks, and each class's stack holds exactly the attached sinks of
\* that format, each once.
C1_SinkMapPartition ==
    /\ \A i \in 1..Len(sink_map) : sink_map[i].stack # <<>>
    /\ \A i, j \in 1..Len(sink_map) :
          ClassFormat(sink_map[i]) = ClassFormat(sink_map[j]) => i = j
    /\ \A s \in SinkIds : Attached(s) =>
          \E i \in 1..Len(sink_map) :
             /\ ClassFormat(sink_map[i]) = audio_format[s]
             /\ Cardinality({k \in 1..Len(sink_map[i].stack) : sink_map[i].stack[k] = s}) = 1
    /\ \A i \in 1..Len(sink_map) : \A k \in 1..Len(sink_map[i].stack) :
          /\ Attached(sink_map[i].stack[k])
          /\ audio_format[sink_map[i].stack[k]] = ClassFormat(sink_map[i])

\* C1's case: a class of two sinks, after a sink of another format was detached
C1_Witness ==
    /\ Len(sink_map) = 1
    /\ Len(sink_map[1].stack) = 2
    /\ \E s \in SinkIds :
          /\ q_abort[s] /\ ~Attached(s) /\ sphase[s] = "idle"
          /\ ~audio_formats_equal(audio_format[s], ClassFormat(sink_map[1]))

SentinelCount(q) == Len(q) - BufCount(q)

C3_Stated ==
    \A i \in 1..Len(results) :
        /\ results[i] = "YES" => \A j \in 1..(i - 1) : results[j] = "YES"
        /\ results[i] = "END" => \A j \in 1..(i - 1) : results[j] = "YES"

\* C4 (as stated): a buffer is freed once, and the worker's ref, final ref and
\* final unref never operate on a buffer that is already freed.
C4_Stated ==
    /\ \A b \in 1..Len(bufs) : bufs[b].freed <= 1
    /\ wpc \in {"ref", "final_ref", "final_unref"} => ~IsFreed(bufs, w_buf)

\* the sink queues that hold buffer b
Holders(b) == {s \in SinkIds : b \in Buffers(audioq[s])}

\* C5 (as stated): a buffer held in a sink queue has a ref_count of at least the
\* number of queues that hold it.
C5_Stated ==
    \A b \in 1..Len(bufs) :
        Holders(b) # {} => bufs[b].ref_count >= Cardinality(Holders(b))

\* C6 (as stated): no queue of a sink in the map holds a buffer of a removed
\* item, and the worker puts no buffer of a removed item.
C6_Stated ==
    /\ \A s \in SinkIds : InMap(s) =>
          \A b \in Buffers(audioq[s]) : bufs[b].item \in alive
    /\ wpc = "put" => bufs[w_buf].item \in alive

\* C7 (as stated): between calls, groove_playlist_count is the number of items
\* inserted and not removed.
C7_Stated ==
    (clear_node = NoItem /\ ~crashed /\ ~use_after_free)
        => groove_playlist_count = Cardinality(alive)

\* C8 (as stated): a buffer of the item of the last seek is put only after the
\* seek was applied to the demuxer.
C8_Stated ==
    (wpc = "put" /\ bufs[w_buf].item = last_seek.item) => last_seek.stage = "applied"

\* C8 (amended): a buffer of the item of the last seek is put only after the
\* worker has processed the seek request (seek_pos is clear); when av_seek_frame
\* succeeded, the buffer's packet was read at or after the seek's timestamp,
\* and when it failed decoding goes on from the position before the seek.
C8_SeekProcessedBeforeBuffers ==
    (wpc = "put" /\ bufs[w_buf].item = last_seek.item) =>
        /\ last_seek.stage \in {"applied", "failed"}
        /\ seek_pos[last_seek.item] = -1
        /\ (last_seek.stage = "applied" /\ w_pkt # "drain")
              => fpos[last_seek.item] > last_seek.ts

\* the first buffer after a seek back that was applied
C8_Witness ==
    /\ wpc = "put" /\ bufs[w_buf].item = last_seek.item
    /\ last_seek.stage = "applied"
    /\ w_buf > 1 /\ bufs[w_buf].pos <= bufs[w_buf - 1].pos

\* C9 (as stated): after a seek and no other API call, groove_playlist_position
\* gives the seek's item, and once the worker has processed a frame, a time the
\* seek reached: not before the seek's timestamp, and before the file position.
C9_Stated ==
    (wpc = "idle" /\ last_seek.quiet) =>
        /\ groove_playlist_position.item = last_seek.item
        /\ last_seek.frames =>
              /\ groove_playlist_position.seconds >= last_seek.ts
              /\ groove_playlist_position.seconds < fpos[last_seek.item]

\* C9 (amended): after a seek and no other API call, groove_playlist_position
\* gives the seek's item until the worker moves decode_head on (end of file or
\* a failure), and until then, once av_seek_frame has succeeded and a packet
\* with a pts was decoded, a time the seek reached: not before the seek's
\* timestamp and, before end of file, before the file position.
C9_PositionAfterSeek ==
    (wpc = "idle" /\ last_seek.quiet /\ ~last_seek.advanced) =>
        /\ groove_playlist_position.item = last_seek.item
        /\ last_seek.synced =>
              /\ groove_playlist_position.seconds >= last_seek.ts
              /\ ~eof[last_seek.item] =>
                    groove_playlist_position.seconds < fpos[last_seek.item]

\* a seek forward took effect: the clock was behind the timestamp
C9_Witness ==
    /\ wpc = "idle" /\ last_seek.quiet /\ ~last_seek.advanced /\ last_seek.synced
    /\ last_seek.ts > 0
    /\ groove_playlist_position.seconds = last_seek.ts

\* C10: every queue holds its buffers in the order they were produced, and when
\* the fan-out of a buffer is over every sink of the class's stack has received
\* it, except those whose queue refused the put, and no other sink has it.
C10_SameSequencePerClass ==
    /\ \A s \in SinkIds : \A i, j \in 1..Len(audioq[s]) :
          (i < j /\ audioq[s][i] # Sentinel /\ audioq[s][j] # Sentinel)
              => audioq[s][i] < audioq[s][j]
    /\ wpc \in {"final_ref", "final_unref"} =>
          /\ w_ok \cup w_fail = SeqSet(sink_map[w_ci].stack)
          /\ w_ok \cap w_fail = {}
          /\ \A s \in SinkIds \ w_ok : w_buf \notin Buffers(audioq[s])
    /\ wpc \in {"put", "ref"} =>
          w_ok \cup w_fail =
             {sink_map[w_ci].stack[k] :
                 k \in 1..(IF wpc = "put" THEN w_si - 1 ELSE w_si)}

\* a buffer that both sinks of one class received
C10_Witness ==
    /\ wpc = "final_ref"
    /\ Cardinality(w_ok) = 2
    /\ \A s \in w_ok : w_buf \in Buffers(audioq[s])

\* the worker is in the fan-out of buffer w_buf
FanoutInProgress == wpc \in {"put", "ref", "final_ref", "final_unref"}

\* C11: the sentinel is put into a queue only by a worker iteration that finds
\* no decode head, which starts after the fan-out of every buffer decoded
\* before has ended; and a buffer is put into a queue only in an iteration that
\* found a decode head and cleared sent_end_of_q, and is a buffer of that
\* decode head: no buffer follows the sentinel until an item plays again.
C11_SentinelAfterBuffers ==
    /\ [](FanoutInProgress =>
            /\ ~sent_end_of_q
            /\ decode_head # NoItem
            /\ bufs[w_buf].item = decode_head)
    /\ [][\A s \in SinkIds :
            SentinelCount(audioq'[s]) > SentinelCount(audioq[s]) =>
                /\ ~FanoutInProgress /\ ~FanoutInProgress'
                /\ decode_head = NoItem /\ decode_head' = NoItem
                /\ ~sent_end_of_q /\ sent_end_of_q'
                /\ SubSeq(audioq'[s], 1, Len(audioq[s])) = audioq[s]]_vars

\* a queue that got a sentinel, then a buffer of an item played afterwards,
\* then the sentinel that ends that item's playback
C11_Witness ==
    \E s \in SinkIds : \E i, j, k \in 1..Len(audioq[s]) :
        /\ i < j /\ j < k
        /\ audioq[s][i] = Sentinel /\ audioq[s][j] # Sentinel /\ audioq[s][k] = Sentinel
        /\ decode_head = NoItem /\ sent_end_of_q
\* C12 (as stated): once groove_playlist_destroy has set abort_request the
\* worker returns, the join returns and destroy detaches every sink: the process
\* does not stop while a sink still has its back-reference, and when destroy is
\* over the worker has returned and no sink has a back-reference.
C12_Stated ==
    /\ (abort_request /\ crashed) => \A s \in SinkIds : ~sink_playlist[s]
    /\ dpc = "done" => (wpc = "exited" /\ \A s \in SinkIds : ~sink_playlist[s])
\* a step that is the start of a call groove_sink_detach(s)
groove_sink_detach(s) == DetachNone(s) \/ DetachBegin(s)

\* C13: groove_sink_detach on a sink without a playlist back-reference returns
\* -1 and changes nothing: not the sink's queue or its abort state, not the sink
\* map or sink_map_count, not a buffer.
C13_DetachUnattached ==
    [][\A s \in SinkIds :
          (~sink_playlist[s] /\ groove_sink_detach(s)) =>
              /\ detach_ret' = -1
              /\ UNCHANGED <<audioq, audioq_size, q_abort, sink_playlist, sphase,
                             sink_map, sink_map_count, bufs>>]_vars

\* a second detach of a sink that was detached, while another sink is attached
C13_Witness ==
    /\ detach_ret = -1
    /\ sink_map # <<>>
    /\ \E s \in SinkIds : ~sink_playlist[s] /\ q_abort[s] /\ sphase[s] = "idle"
\* C14 (as stated): every sink in the sink map has its playlist back-reference
\* set, in every state another thread can see.
C14_Stated == \A s \in SinkIds : InMap(s) => sink_playlist[s]
\* the worker's next iteration calls decode_one_frame, and
\* maybe_init_filter_graph finds nothing to rebuild: a frame it decodes is
\* written into the graph as it is and harvested from the classes' ports as
\* they are
DecodesWithoutRebuild ==
    /\ wpc = "idle" /\ ~crashed /\ ~abort_request
    /\ decode_head \in alive
    /\ ~every_sink_full
    /\ ~RebuildNeeded([Cur EXCEPT !.vol = EffectiveVolume(decode_head)], decode_head)

\* C15 (as stated): after an attach or a detach the worker rebuilds the graph
\* before it writes a frame, so when it decodes without rebuilding every class
\* of the sink map has an output port of the current graph.
C15_Stated ==
    DecodesWithoutRebuild => \A i \in 1..Len(sink_map) : sink_map[i].port = "live"

\* C16 (as stated): a frame is written only into a graph that was built with
\* filter_volume equal to the effective volume (decode_head's gain times the
\* playlist's volume) and with the snapshot of the file's decoder parameters.
C16_Stated ==
    DecodesWithoutRebuild =>
        /\ filter_graph = "built"
        /\ filter_volume = EffectiveVolume(decode_head)
        /\ in_format = FileFormat(decode_head)

\* C17 (as stated): a build that fails leaves no graph, so the graph is absent
\* or completely built, in every state.
C17_Stated == filter_graph \in {"none", "built"}
\* the items reached from node by following next, at most fuel of them
RECURSIVE ListFrom(_, _)
ListFrom(node, fuel) ==
    IF node = NoItem \/ fuel = 0 THEN <<>>
    ELSE <<node>> \o ListFrom(item_next[node], fuel - 1)

\* the playlist as groove_playlist_count walks it
ListSeq == ListFrom(head, MaxItems)

\* C18 (as stated): between calls the playlist is a well-formed doubly-linked
\* list of the items inserted and not removed: head has no prev, tail has no
\* next and is the last item reached from head, and x.next.prev = x for every
\* item x with a successor.
C18_Stated ==
    (clear_node = NoItem /\ ~crashed /\ ~use_after_free) =>
        /\ SeqSet(ListSeq) = alive
        /\ head # NoItem => item_prev[head] = NoItem
        /\ tail # NoItem => item_next[tail] = NoItem
        /\ tail = IF ListSeq = <<>> THEN NoItem ELSE ListSeq[Len(ListSeq)]
        /\ \A x \in alive : item_next[x] # NoItem => item_prev[item_next[x]] = x

\* C19 (as stated): decode_head is none or an item that is in the playlist:
\* not freed, and reached from head.
C19_Stated ==
    ~crashed =>
        \/ decode_head = NoItem
        \/ decode_head \in alive /\ decode_head \in SeqSet(ListSeq)

\* C20 (as stated): no step of groove_playlist_remove reads a field of the
\* sentinel: none is taken from a state in which every sink of the map has its
\* back-reference and a queue of a sink of the map holds the sentinel, whose
\* item audioq_purge would read.
C20_Stated ==
    [][~(/\ ~PurgeNoPlaylist
         /\ PurgeReadsSentinel
         /\ \E i \in alive : RemoveItem(i, "return"))]_vars
\* C25: sink_map_count is the number of classes of the sink map, and every class
\* has a sink on its stack.
C25_CountIsClasses ==
    /\ sink_map_count = Len(sink_map)
    /\ \A i \in 1..Len(sink_map) : Len(sink_map[i].stack) >= 1

\* three sinks attached in two classes: the count is of classes, not of sinks
C25_Witness ==
    /\ sink_map_count = 2
    /\ \E i \in 1..Len(sink_map) : Len(sink_map[i].stack) = 2
    /\ \A s \in SinkIds : sink_playlist[s] /\ sphase[s] = "idle"
\* C21 (as stated): no turn of groove_playlist_clear's loop and no turn of
\* groove_playlist_destroy's loop over the sink map reads an object that has
\* been freed.
C21_Stated == [][(ClearStep \/ DestroyDetach) => (use_after_free' = use_after_free)]_vars
AllSinksFull == \A s \in SinkIds : InMap(s) => audioq_size[s] >= MinAudioqSize

C22_FullDecodesNothing ==
    [][/\ (wpc = "idle" /\ decode_head # NoItem /\ AllSinksFull) =>
             /\ wpc' = "idle"
             /\ Len(bufs') = Len(bufs)
             /\ \A s \in SinkIds : Len(audioq'[s]) <= Len(audioq[s])
             /\ UNCHANGED <<decode_head, fileVars, graphVars>>
       /\ (wpc = "idle" /\ (fpos' # fpos \/ eof' # eof \/ Len(bufs') > Len(bufs)
                               \/ wpc' # "idle")) =>
             \E s \in SinkIds : InMap(s) /\ audioq_size[s] < MinAudioqSize]_vars

\* both sinks are in the map and full, the decode head's file has not been
\* seen to end, and the worker is at the top of an iteration
C22_Witness ==
    /\ wpc = "idle" /\ decode_head # NoItem /\ ~eof[decode_head]
    /\ \A s \in SinkIds : InMap(s) /\ audioq_size[s] >= MinAudioqSize
    /\ ~sent_end_of_q
\* C26 (as stated): under a fair scheduler, with a sink attached and drained,
\* every item of the playlist eventually has a buffer made from it (which the
\* worker does for the decode head only), unless the process has stopped.
C26_Stated ==
    \A i \in ItemIds :
        [](i \in alive => <>(crashed \/ \E b \in 1..Len(bufs) : bufs[b].item = i))
\* C23: a step of the worker that moves decode_head moves it to the item's
\* successor, arms the successor's file with seek_pos = 0 and seek_flush false,
\* flushes no queue, and is taken only when the file was complete or the graph
\* build failed (not after a packet the codec failed on); and an iteration that
\* finds the file complete with nothing left in the decoder, or whose graph
\* build fails, moves decode_head in that same step.
WorkerTouched ==
    /\ wpc = "idle" /\ n_items' = n_items
    /\ fileVars' # fileVars \/ graphVars' # graphVars \/ decode_head' # decode_head
          \/ wpc' # wpc

FileComplete == eof[decode_head] /\ ~SeekPending(seek_pos[decode_head])

C27_Stated ==
    [][(/\ decode_head' # decode_head /\ decode_head' \in alive'
        /\ clear_node = NoItem /\ ~use_after_free' /\ ~crashed'
        /\ ~(\E i \in alive, ts \in SeekTargets : Seek(i, ts))) =>
          \/ seek_pos'[decode_head'] = 0
          \/ /\ ~SeekPending(seek_pos'[decode_head'])
             /\ fpos'[decode_head'] = 0 /\ ~eof'[decode_head']]_vars
\* C28: no thread waits for decode_head_mutex while it holds a mutex, a thread
\* that takes a seek_mutex holds decode_head_mutex and nothing else, the worker
\* holds no mutex when it sleeps or ends an iteration, some thread can always
\* go on while a call is in progress, and under fair scheduling every call of
\* an application thread returns.
Holds(t) == {l \in LockIds : lk_owner[l] = t}

WaitsFor(t, l) == th_todo[t] # <<>> /\ Head(th_todo[t]) = Acq(l)

LockOrder ==
    \A t \in LockThreads :
        /\ WaitsFor(t, DecodeHeadMutex) => Holds(t) = {}
        /\ \A f \in ItemIds : WaitsFor(t, SeekMutex(f)) => Holds(t) = {DecodeHeadMutex}

WorkerReleases ==
    (th_todo["worker"] = <<>> \/ Head(th_todo["worker"]) = Delay) => Holds("worker") = {}

NoThreadStuck ==
    (\E t \in LockThreads : th_todo[t] # <<>>) => \E t \in LockThreads : CanStep(t)

====
